---- MODULE Spec2Model ----
(***************************************************************************)
(* A model of tmux-lib: the output validators (error.rs), the typed ids    *)
(* (session_id.rs, window_id.rs), the server readiness loop (server.rs),   *)
(* the lexical parsers (parse.rs), the client record (client.rs), the      *)
(* pane capture post-processor (utils.rs) and the operations that run      *)
(* tmux once (server.rs, client.rs).                                       *)
(*                                                                         *)
(* Rust `String`/`&str` values are sequences of one-character strings,     *)
(* `Vec<u8>`/`&[u8]` values are sequences of byte values (0..255).         *)
(***************************************************************************)
EXTENDS Integers, Sequences, FiniteSets, TLC

VARIABLES
    \* ---- server::start / wait_for_server_ready
    pc,         \* position of the start() future
    child,      \* the tmux child process start() is awaiting, if any
    now,        \* clock, in ms since the timeout timer was (or will be) created
    deadline,   \* fire time of Timer::after(SERVER_READY_TIMEOUT), -1: not created
    wake,       \* fire time of Timer::after(SERVER_READY_POLL_INTERVAL), -1: none
    polls,      \* number of list-sessions invocations issued so far
    sleeps,     \* number of poll-interval timers created so far
    exits,      \* what the list-sessions invocations did: [zero, nonzero, io],
                \* and new-session: "none", "io", "zero" or "nonzero"
    result,     \* what start() returned ([kind |-> "None"] while pending)
    \* ---- error::check_empty_process_output / check_process_success
    output,     \* the std::process::Output under inspection
    intent,     \* the intent argument
    validator,  \* which validator ran ("none" before the call)
    verdict,    \* what the validator returned ([kind |-> "None"] before)
    \* ---- SessionId / WindowId / PaneId
    idKind,     \* which id type is parsed
    input,      \* the &str handed to the parser
    parsed,     \* parse::<id>(input) ([kind |-> "None"] before the call)
    built,      \* <Id>::from_str(input) ([kind |-> "None"] before the call)
    \* ---- parse::quoted_string / quoted_nonempty_string / boolean, Client
    text,       \* the &str handed to the parser
    quoted,     \* quoted_string(text) ([kind |-> "None"] before the call)
    nonempty,   \* quoted_nonempty_string(text) ([kind |-> "None"] before)
    truth,      \* boolean(text) ([kind |-> "None"] before the call)
    client,     \* Client::from_str(text) ([kind |-> "None"] before the call)
    \* ---- utils::cleanup_captured_buffer
    buffer,             \* the captured bytes
    drop_n_last_lines,  \* the number of lines to leave out at the end
    overflow_checks,    \* whether the build checks integer overflow
    final_buffer,       \* cleanup_captured_buffer(buffer, drop_n_last_lines)
    padded,             \* the same capture with more trailing whitespace
    padded_final,       \* cleanup_captured_buffer(padded, drop_n_last_lines)
    \* ---- the operations that run tmux once
    op,         \* the operation called ("none" before the call)
    ran,        \* what running tmux yielded: an io::Error or an Output
    returned    \* what the operation returned ([kind |-> "None"] before)

startVars == <<pc, child, now, deadline, wake, polls, sleeps, exits, result>>
valVars   == <<output, intent, validator, verdict>>
idVars    == <<idKind, input, parsed, built>>
lexVars   == <<text, quoted, nonempty, truth, client>>
capVars   == <<buffer, drop_n_last_lines, overflow_checks, final_buffer, padded,
               padded_final>>
opVars    == <<op, ran, returned>>
vars      == <<startVars, valVars, idVars, lexVars, capVars, opVars>>

\* What the actions of one part leave alone: the variables of the others.
exceptStart == <<valVars, idVars, lexVars, capVars, opVars>>
exceptVal   == <<startVars, idVars, lexVars, capVars, opVars>>
exceptId    == <<startVars, valVars, lexVars, capVars, opVars>>
exceptLex   == <<startVars, valVars, idVars, capVars, opVars>>
exceptCap   == <<startVars, valVars, idVars, lexVars, opVars>>
exceptOp    == <<startVars, valVars, idVars, lexVars, capVars>>

----------------------------------------------------------------------------
(* Text helpers *)

\* A string literal as a Rust string (a sequence of characters).
Chars(s) == [i \in 1..Len(s) |-> SubSeq(s, i, i)]

----------------------------------------------------------------------------
(* Bounds of the model *)

\* Longest stdout / stderr buffer of a process output.
MaxBufLen == 2

\* How long after the readiness deadline the clock keeps running.
MaxLate == 100

\* Granularity of the clock, in ms.
TimeStep == 50

\* Most pieces (single bytes or one reset sequence) of a captured buffer.
MaxPieces == 4

\* Most pieces of a captured buffer that is captured again with padding.
MaxPaddedPieces == 3

\* Largest drop_n_last_lines.
MaxDrop == 3

\* Most line feeds appended to a padded buffer.
MaxExtraNewlines == 2

\* Most pieces (single bytes or one quoted word) of the stdout of a command.
MaxStdoutPieces == 4

\* Most lines that show-options -g prints.
MaxOptionLines == 3

\* Longest input handed to an id parser.
MaxIdLen == 4

\* Largest id number of the round trip.
MaxIdNum == 99999

\* Longest input handed to the quoted string parsers.
MaxQuotedLen == 5

\* Longest free-form input handed to the boolean parser.
MaxBoolLen == 4

\* Longest input handed to Client::from_str.
MaxClientLen == 7

----------------------------------------------------------------------------
(* std::process::Output *)

\* Bytes process output is drawn from: 'a', and 0xC3 0xA9 ("e acute" in UTF-8
\* when adjacent and in this order, invalid UTF-8 otherwise).
Bytes == {97, 195, 169}

RECURSIVE SeqsUpTo(_, _)
SeqsUpTo(S, n) ==
    IF n = 0 THEN {<<>>}
    ELSE LET shorter == SeqsUpTo(S, n - 1)
         IN  shorter \cup {Append(s, c) : s \in {t \in shorter : Len(t) = n - 1}, c \in S}

Buffers == SeqsUpTo(Bytes, MaxBufLen)

\* Raw wait statuses: exit code 0, exit code 1 (1 << 8), killed by signal 9.
Statuses == {0, 256, 9}

Outputs == [status : Statuses, stdout : Buffers, stderr : Buffers]

Intents == {"new-session", "kill-session", "test-intent"}

\* ExitStatus::code(): the exit code of a process that exited, -1 (None) for
\* one killed by a signal.
ExitCode(status) == IF status % 128 = 0 THEN status \div 256 ELSE -1

ExitStatus_success_mutant_always(status) == TRUE

\* ExitStatus::success()
ExitStatus_success(status) == status = 0

\* The character of an ASCII byte: tab, line feed, and the printable ones
\* (all but the grave accent, which no buffer of the model holds).
AsciiChar(b) ==
    LET upper == " !\"#$%&'()*+,-./0123456789:;<=>?@ABCDEFGHIJKLMNOPQRSTUVWXYZ[\\]^_"
        lower == "abcdefghijklmnopqrstuvwxyz{|}~"
    IN  CASE b = 9 -> "\t"
          [] b = 10 -> "\n"
          [] b \in 32..95 -> SubSeq(upper, b - 31, b - 31)
          [] b \in 97..126 -> SubSeq(lower, b - 96, b - 96)
          [] OTHER -> "?"

\* String::from_utf8_lossy(bytes).to_string(), for the bytes of Bytes: an ASCII
\* byte is its character, a well-formed two-byte sequence is one character,
\* and every other byte becomes U+FFFD.
RECURSIVE from_utf8_lossy(_)
from_utf8_lossy(bytes) ==
    IF bytes = <<>> THEN <<>>
    ELSE LET b == Head(bytes) IN
         IF b < 128 THEN <<AsciiChar(b)>> \o from_utf8_lossy(Tail(bytes))
         ELSE IF b \in 194..223 /\ Len(bytes) >= 2 /\ bytes[2] \in 128..191
              THEN <<IF b = 195 /\ bytes[2] = 169 THEN "U+00E9" ELSE "U+????">>
                   \o from_utf8_lossy(Tail(Tail(bytes)))
              ELSE <<"U+FFFD">> \o from_utf8_lossy(Tail(bytes))

Ok == [kind |-> "Ok"]
Pending == [kind |-> "None"]
IoError == [kind |-> "Io"]

\* A panic: the call does not return, the thread unwinds with the message.
Panic(message) == [kind |-> "Panic", message |-> message]

UnexpectedTmuxOutput(i, out, err) ==
    [kind |-> "UnexpectedTmuxOutput", intent |-> i, stdout |-> out, stderr |-> err]

check_empty_mutant_status(o, i) ==
    IF o.status # 0 \/ o.stdout # <<>> \/ o.stderr # <<>>
    THEN UnexpectedTmuxOutput(i, from_utf8_lossy(o.stdout), from_utf8_lossy(o.stderr))
    ELSE Ok

check_empty_mutant_stdout_only(o, i) ==
    IF o.stdout # <<>>
    THEN UnexpectedTmuxOutput(i, from_utf8_lossy(o.stdout), from_utf8_lossy(o.stderr))
    ELSE Ok

check_empty_mutant_swapped(o, i) ==
    IF o.stdout # <<>> \/ o.stderr # <<>>
    THEN UnexpectedTmuxOutput(i, from_utf8_lossy(o.stderr), from_utf8_lossy(o.stdout))
    ELSE Ok

check_empty_process_output(o, i) ==
    IF o.stdout # <<>> \/ o.stderr # <<>>
    THEN UnexpectedTmuxOutput(i, from_utf8_lossy(o.stdout), from_utf8_lossy(o.stderr))
    ELSE Ok

check_success_mutant_stderr(o, i) ==
    IF ~ExitStatus_success(o.status) \/ o.stderr # <<>>
    THEN UnexpectedTmuxOutput(i, from_utf8_lossy(o.stdout), from_utf8_lossy(o.stderr))
    ELSE Ok

check_process_success(o, i) ==
    IF ~ExitStatus_success(o.status)
    THEN UnexpectedTmuxOutput(i, from_utf8_lossy(o.stdout), from_utf8_lossy(o.stderr))
    ELSE Ok

----------------------------------------------------------------------------
(* The validators, applied to an arbitrary process output *)

IdIdle ==
    /\ idKind = "none"
    /\ input = <<>>
    /\ parsed = Pending
    /\ built = Pending

LexIdle ==
    /\ text = <<>>
    /\ quoted = Pending
    /\ nonempty = Pending
    /\ truth = Pending
    /\ client = Pending

CapIdle ==
    /\ buffer = <<>>
    /\ drop_n_last_lines = 0
    /\ overflow_checks = FALSE
    /\ final_buffer = Pending
    /\ padded = <<>>
    /\ padded_final = Pending

OpIdle ==
    /\ op = "none"
    /\ ran = Pending
    /\ returned = Pending

ValIdle ==
    /\ output = [status |-> 0, stdout |-> <<>>, stderr |-> <<>>]
    /\ intent = "none"
    /\ validator = "none"
    /\ verdict = Pending

ValInit ==
    /\ output \in Outputs
    /\ intent \in Intents
    /\ validator = "none"
    /\ verdict = Pending

\* check_empty_process_output(&output, intent): the output is borrowed.
CallCheckEmpty ==
    /\ validator = "none"
    /\ validator' = "check_empty_process_output"
    /\ verdict' = check_empty_process_output(output, intent)
    /\ UNCHANGED <<output, intent>>
    /\ UNCHANGED exceptVal

\* check_process_success(&output, intent): the output is borrowed.
CallCheckSuccess ==
    /\ validator = "none"
    /\ validator' = "check_process_success"
    /\ verdict' = check_process_success(output, intent)
    /\ UNCHANGED <<output, intent>>
    /\ UNCHANGED exceptVal

----------------------------------------------------------------------------
(* server::start and wait_for_server_ready *)

\* Maximum time to wait for the server to become ready, in ms.
SERVER_READY_TIMEOUT == 5000

\* Delay between readiness checks, in ms.
SERVER_READY_POLL_INTERVAL == 50

NoChild == [cmd |-> "none", state |-> "none"]
Running(cmd) == [cmd |-> cmd, state |-> "running"]
Finished(cmd, o) == [cmd |-> cmd, state |-> "done", outcome |-> o]

\* What awaiting Command::output() can yield: an io::Error, or the Output.
IoOutcome == [kind |-> "io"]
OutputOutcome(o) == [kind |-> "output", output |-> o]

\* list-sessions output is never inspected beyond its status.
ListSessionsOutcomes ==
    {IoOutcome} \cup
    {OutputOutcome([status |-> s, stdout |-> <<>>, stderr |-> <<>>]) : s \in Statuses}

NewSessionOutcomes == {IoOutcome} \cup {OutputOutcome(o) : o \in Outputs}

\* format!("{:?}", d) of a Duration of ms milliseconds: whole seconds print as
\* "<secs>s", a fraction of a second as "<ms>ms", and anything else as
\* "<secs>.<fraction>s" with the fraction's trailing zeros removed.
DurationDebug(ms) ==
    LET secs == ms \div 1000
        frac == ms % 1000
        digits == IF frac % 100 = 0 THEN ToString(frac \div 100)
                  ELSE IF frac % 10 = 0
                       THEN ToString(frac \div 100) \o ToString((frac \div 10) % 10)
                       ELSE ToString(frac \div 100) \o ToString((frac \div 10) % 10)
                            \o ToString(frac % 10)
    IN  IF secs > 0
        THEN IF frac = 0 THEN ToString(secs) \o "s"
             ELSE ToString(secs) \o "." \o digits \o "s"
        ELSE ToString(frac) \o "ms"

\* The error the timeout future yields.
TimeoutError ==
    UnexpectedTmuxOutput("wait-for-server-ready", <<>>,
        Chars("server did not become ready within " \o DurationDebug(SERVER_READY_TIMEOUT)))

StartIdle ==
    /\ pc = "Idle"
    /\ child = NoChild
    /\ now = 0
    /\ deadline = -1
    /\ wake = -1
    /\ polls = 0
    /\ sleeps = 0
    /\ exits = [zero |-> 0, nonzero |-> 0, io |-> 0, new_session |-> "none"]
    /\ result = Pending

StartInit ==
    /\ pc = "Starting"
    /\ child = NoChild
    /\ now = 0
    /\ deadline = -1
    /\ wake = -1
    /\ polls = 0
    /\ sleeps = 0
    /\ exits = [zero |-> 0, nonzero |-> 0, io |-> 0, new_session |-> "none"]
    /\ result = Pending

\* start() returns r.
Return_mutant_keeps_running(r) ==
    /\ pc' = pc
    /\ result' = r

Return(r) ==
    /\ pc' = "Done"
    /\ result' = r

\* Command::new("tmux")...output(): the child is spawned when output() is
\* called; a spawn failure is an io::Error the first await yields.
SpawnListSessions(spawned) ==
    /\ polls' = polls + 1
    /\ IF spawned
       THEN /\ child' = Running("list-sessions")
            /\ UNCHANGED exits
       ELSE /\ child' = Finished("list-sessions", IoOutcome)
            /\ exits' = [exits EXCEPT !.io = @ + 1]

\* The timeout future is ready once its timer has fired.
TimeoutReady_mutant_never(at) == FALSE

TimeoutReady(at) == at >= 0 /\ now >= at

\* start(), up to its first suspension: new-session is spawned.
StartCall ==
    /\ pc = "Starting"
    /\ \E spawned \in BOOLEAN :
         IF spawned
         THEN /\ child' = Running("new-session")
              /\ pc' = "AwaitNewSession"
              /\ UNCHANGED result
         ELSE /\ child' = Finished("new-session", IoOutcome)
              /\ Return(IoError)
    /\ exits' = [exits EXCEPT !.new_session = IF child'.state = "done" THEN "io" ELSE @]
    /\ UNCHANGED <<now, deadline, wake, polls, sleeps>>
    /\ UNCHANGED exceptStart

\* The environment: the awaited child's output() completes.
ChildExit ==
    /\ pc \in {"AwaitNewSession", "AwaitListSessions"}
    /\ child.state = "running"
    /\ \E o \in IF child.cmd = "new-session" THEN NewSessionOutcomes
                ELSE ListSessionsOutcomes :
         /\ child' = Finished(child.cmd, o)
         /\ exits' = IF child.cmd # "list-sessions"
                     THEN [exits EXCEPT !.new_session =
                              IF o.kind = "io" THEN "io"
                              ELSE IF ExitCode(o.output.status) = 0 THEN "zero"
                              ELSE "nonzero"]
                     ELSE IF o.kind = "io" THEN [exits EXCEPT !.io = @ + 1]
                     ELSE IF ExitCode(o.output.status) = 0
                          THEN [exits EXCEPT !.zero = @ + 1]
                          ELSE [exits EXCEPT !.nonzero = @ + 1]
    /\ UNCHANGED <<pc, now, deadline, wake, polls, sleeps, result>>
    /\ UNCHANGED exceptStart

\* The environment: time passes while a timer is armed.
Tick ==
    /\ pc \in {"AwaitListSessions", "Sleeping"}
    /\ now < SERVER_READY_TIMEOUT + MaxLate
    /\ now' = now + TimeStep
    /\ UNCHANGED <<pc, child, deadline, wake, polls, sleeps, exits, result>>
    /\ UNCHANGED exceptStart

\* start() resumes with the output of new-session, checks it, and enters
\* wait_for_server_ready: future::or polls `poll` (which spawns the first
\* list-sessions) and then `timeout` (which creates its timer).
NewSessionDone ==
    /\ pc = "AwaitNewSession"
    /\ child.state = "done"
    /\ IF child.outcome.kind = "io"
       THEN /\ Return(IoError)
            /\ UNCHANGED <<child, deadline, polls, exits>>
       ELSE LET checked == check_empty_process_output(child.outcome.output, "new-session")
            IN  IF checked # Ok
                THEN /\ Return(checked)
                     /\ UNCHANGED <<child, deadline, polls, exits>>
                ELSE \E spawned \in BOOLEAN :
                       /\ SpawnListSessions(spawned)
                       /\ IF spawned
                          THEN /\ pc' = "AwaitListSessions"
                               /\ deadline' = now + SERVER_READY_TIMEOUT
                               /\ UNCHANGED result
                          ELSE /\ Return(IoError)
                               /\ UNCHANGED deadline
    /\ UNCHANGED <<now, wake, sleeps>>
    /\ UNCHANGED exceptStart

\* One turn of the poll loop on what output().await yielded: `?` returns the
\* io::Error, a successful status returns Ok(()), anything else sleeps.
poll_turn_mutant_retry_io(o) ==
    IF o.kind = "io" THEN "sleep"
    ELSE IF ExitStatus_success(o.output.status) THEN "ok"
    ELSE "sleep"

poll_turn_mutant_never_ok(o) ==
    IF o.kind = "io" THEN "err" ELSE "sleep"

poll_turn_mutant_timeout_first(o) ==
    IF TimeoutReady(deadline) THEN "sleep"
    ELSE IF o.kind = "io" THEN "err"
    ELSE IF ExitStatus_success(o.output.status) THEN "ok"
    ELSE "sleep"

poll_turn(o) ==
    IF o.kind = "io" THEN "err"
    ELSE IF ExitStatus_success(o.output.status) THEN "ok"
    ELSE "sleep"

\* The executor polls future::or(poll, timeout) after a wake-up: `poll` is
\* polled first and wins if it is ready; otherwise `timeout` is polled.
WaitPoll ==
    /\ pc \in {"AwaitListSessions", "Sleeping"}
    /\ \/ pc = "AwaitListSessions" /\ child.state = "done"
       \/ pc = "Sleeping" /\ now >= wake
       \/ TimeoutReady(deadline)
    /\ IF pc = "AwaitListSessions" /\ child.state = "done"
       THEN \* output().await resumes
            CASE poll_turn(child.outcome) = "err" ->
                   /\ Return(IoError)
                   /\ UNCHANGED <<child, wake, polls, sleeps, exits>>
              [] poll_turn(child.outcome) = "ok" ->
                   /\ Return(Ok)
                   /\ UNCHANGED <<child, wake, polls, sleeps, exits>>
              [] OTHER ->
                   \* Timer::after(SERVER_READY_POLL_INTERVAL).await is pending
                   /\ wake' = now + SERVER_READY_POLL_INTERVAL
                   /\ sleeps' = sleeps + 1
                   /\ child' = NoChild
                   /\ IF TimeoutReady(deadline)
                      THEN Return(TimeoutError)
                      ELSE pc' = "Sleeping" /\ UNCHANGED result
                   /\ UNCHANGED <<polls, exits>>
       ELSE IF pc = "Sleeping" /\ now >= wake
            THEN \* the sleep is over: the loop spawns the next list-sessions
                 \E spawned \in BOOLEAN :
                   /\ SpawnListSessions(spawned)
                   /\ wake' = -1
                   /\ IF ~spawned THEN Return(IoError)
                      ELSE IF TimeoutReady(deadline) THEN Return(TimeoutError)
                      ELSE pc' = "AwaitListSessions" /\ UNCHANGED result
                   /\ UNCHANGED sleeps
            ELSE \* `poll` is pending and the timeout timer has fired
                 /\ Return(TimeoutError)
                 /\ UNCHANGED <<child, wake, polls, sleeps, exits>>
    /\ UNCHANGED <<now, deadline>>
    /\ UNCHANGED exceptStart

Init == StartInit /\ ValIdle /\ IdIdle /\ LexIdle /\ CapIdle /\ OpIdle

Next == StartCall \/ ChildExit \/ Tick \/ NewSessionDone \/ WaitPoll

\* start() driven by an arbitrary process runner and clock.
Spec == Init /\ [][Next]_vars

\* The same, with a clock that advances and an executor that runs woken tasks.
FairSpec ==
    /\ Init
    /\ [][Next]_vars
    /\ WF_vars(Tick)
    /\ WF_vars(WaitPoll)
    /\ WF_vars(NewSessionDone)

----------------------------------------------------------------------------
(* nom combinators, as the id parsers use them *)

\* IResult: Ok((remaining, value)) or Err(nom::Err::Error(Error{input, code})).
ParseOk(rest, value) == [kind |-> "Ok", rest |-> rest, value |-> value]
ParseErr(at, code) == [kind |-> "Err", input |-> at, code |-> code]

AsciiDigits == {"0", "1", "2", "3", "4", "5", "6", "7", "8", "9"}

\* character::complete::char(c)
char(c, in) ==
    IF in # <<>> /\ Head(in) = c THEN ParseOk(Tail(in), c) ELSE ParseErr(in, "Char")

\* The longest prefix of `in` made of ASCII digits.
RECURSIVE DigitPrefix(_)
DigitPrefix(in) ==
    IF in # <<>> /\ Head(in) \in AsciiDigits
    THEN <<Head(in)>> \o DigitPrefix(Tail(in))
    ELSE <<>>

digit1_mutant_digit0(in) ==
    LET digits == DigitPrefix(in)
    IN  ParseOk(SubSeq(in, Len(digits) + 1, Len(in)), digits)

\* character::complete::digit1
digit1(in) ==
    LET digits == DigitPrefix(in)
    IN  IF digits = <<>> THEN ParseErr(in, "Digit")
        ELSE ParseOk(SubSeq(in, Len(digits) + 1, Len(in)), digits)

\* sequence::preceded(char(c), digit1)
preceded_char_digit1(c, in) ==
    LET first == char(c, in)
    IN  IF first.kind = "Err" THEN first ELSE digit1(first.rest)

all_consuming_mutant_unchecked(res) == res

\* combinator::all_consuming(parser), applied to what the parser returned.
all_consuming(res) ==
    IF res.kind = "Ok" /\ res.rest # <<>> THEN ParseErr(res.rest, "Eof") ELSE res

ParseError(desc, i, err) ==
    [kind |-> "ParseError", desc |-> desc, intent |-> i, err |-> err]

map_add_intent_mutant_swapped(desc, i, nom_err) ==
    [kind |-> "ParseError", desc |-> i, intent |-> desc,
     err |-> [input |-> nom_err.input, code |-> nom_err.code]]

\* error::map_add_intent
map_add_intent(desc, i, nom_err) ==
    ParseError(desc, i, [input |-> nom_err.input, code |-> nom_err.code])

----------------------------------------------------------------------------
(* SessionId, WindowId, PaneId *)

\* An id wraps the raw tmux representation.
Id(type, raw) == [type |-> type, raw |-> raw]

\* SessionId::as_str / WindowId::as_str
as_str(id) == id.raw

session_id_mutant_bare_digits(in) ==
    LET res == preceded_char_digit1("$", in)
    IN  IF res.kind = "Err" THEN res
        ELSE ParseOk(res.rest, Id("SessionId", res.value))

\* session_id::parse::session_id
session_id(in) ==
    LET res == preceded_char_digit1("$", in)
    IN  IF res.kind = "Err" THEN res
        ELSE ParseOk(res.rest, Id("SessionId", <<"$">> \o res.value))

\* window_id::parse::window_id
window_id(in) ==
    LET res == preceded_char_digit1("@", in)
    IN  IF res.kind = "Err" THEN res
        ELSE ParseOk(res.rest, Id("WindowId", <<"@">> \o res.value))

\* The pane id parser: `%` and one or more digits.
pane_id(in) ==
    LET res == preceded_char_digit1("%", in)
    IN  IF res.kind = "Err" THEN res
        ELSE ParseOk(res.rest, Id("PaneId", <<"%">> \o res.value))

\* <SessionId as FromStr>::from_str
SessionId_from_str(in) ==
    LET res == all_consuming(session_id(in))
    IN  IF res.kind = "Err"
        THEN map_add_intent("SessionId", "##{session_id}", res)
        ELSE [kind |-> "Ok", value |-> res.value]

\* <WindowId as FromStr>::from_str
WindowId_from_str(in) ==
    LET res == all_consuming(window_id(in))
    IN  IF res.kind = "Err"
        THEN map_add_intent("WindowId", "##{window_id}", res)
        ELSE [kind |-> "Ok", value |-> res.value]

\* The PaneId constructor from a string.
PaneId_from_str(in) ==
    LET res == all_consuming(pane_id(in))
    IN  IF res.kind = "Err"
        THEN map_add_intent("PaneId", "##{pane_id}", res)
        ELSE [kind |-> "Ok", value |-> res.value]

IdKinds == {"SessionId", "WindowId", "PaneId"}

Prefix(kind) ==
    CASE kind = "SessionId" -> "$"
      [] kind = "WindowId" -> "@"
      [] kind = "PaneId" -> "%"

\* Characters id parser inputs are drawn from; U+0663 is a digit that is not
\* an ASCII digit.
IdChars == {"$", "@", "%", "0", "7", "a", ":", "U+0663"}

IdInputs == SeqsUpTo(IdChars, MaxIdLen)

\* decimal(n), as tmux prints the number of an id.
RECURSIVE Decimal(_)
Decimal(n) ==
    IF n < 10 THEN <<ToString(n)>>
    ELSE Decimal(n \div 10) \o <<ToString(n % 10)>>

IdInit ==
    /\ idKind \in IdKinds
    /\ input \in IdInputs
    /\ parsed = Pending
    /\ built = Pending

RoundTripInit ==
    /\ idKind \in IdKinds
    /\ input \in {<<Prefix(idKind)>> \o Decimal(n) : n \in 0..MaxIdNum}
    /\ parsed = Pending
    /\ built = Pending

\* parse::session_id(input), parse::window_id(input) or the pane id parser.
ParseId ==
    /\ idKind \in IdKinds
    /\ parsed = Pending
    /\ parsed' = CASE idKind = "SessionId" -> session_id(input)
                   [] idKind = "WindowId" -> window_id(input)
                   [] idKind = "PaneId" -> pane_id(input)
    /\ UNCHANGED <<idKind, input, built>>
    /\ UNCHANGED exceptId

\* SessionId::from_str(input), WindowId::from_str(input) or PaneId's.
FromStr ==
    /\ idKind \in IdKinds
    /\ built = Pending
    /\ built' = CASE idKind = "SessionId" -> SessionId_from_str(input)
                  [] idKind = "WindowId" -> WindowId_from_str(input)
                  [] idKind = "PaneId" -> PaneId_from_str(input)
    /\ UNCHANGED <<idKind, input, parsed>>
    /\ UNCHANGED exceptId

----------------------------------------------------------------------------
(* parse.rs: the quoted strings and the boolean *)

\* bytes::complete::tag(t)
tag(t, in) ==
    IF Len(in) >= Len(t) /\ SubSeq(in, 1, Len(t)) = t
    THEN ParseOk(SubSeq(in, Len(t) + 1, Len(in)), t)
    ELSE ParseErr(in, "Tag")

\* none_of("\\\'"): any one character but the backslash and the quote.
IsNormal(c) == c \notin {"\\", "'"}

\* escaped(none_of("\\\'"), '\\', tag("'")) on `in`, of which the first `pos`
\* characters are consumed: normal characters and \' pairs are consumed until
\* the input ends or a character that is neither shows up. A backslash that
\* ends the input, or is followed by anything but a quote, is an error; so is
\* stopping before anything was consumed.
RECURSIVE escaped_loop(_, _)
escaped_loop(in, pos) ==
    IF pos = Len(in) THEN ParseOk(<<>>, in)
    ELSE IF IsNormal(in[pos + 1]) THEN escaped_loop(in, pos + 1)
    ELSE IF in[pos + 1] = "\\"
         THEN IF 1 >= Len(in) - pos THEN ParseErr(in, "Escaped")
              ELSE LET esc == tag(<<"'">>, SubSeq(in, pos + 2, Len(in)))
                   IN  IF esc.kind = "Err" THEN esc ELSE escaped_loop(in, pos + 2)
         ELSE IF pos = 0 THEN ParseErr(in, "Escaped")
              ELSE ParseOk(SubSeq(in, pos + 1, Len(in)), SubSeq(in, 1, pos))

escaped(in) == escaped_loop(in, 0)

\* alt((esc, tag(""))): the first alternative that succeeds, else the error
\* of the last one.
esc_or_empty(in) ==
    LET first == escaped(in)
    IN  IF first.kind = "Ok" THEN first ELSE tag(<<>>, in)

\* delimited(tag("'"), body, tag("'")), applied to what `body` returned on the
\* input after the opening quote.
delimited_close(body) ==
    IF body.kind = "Err" THEN body
    ELSE LET close == tag(<<"'">>, body.rest)
         IN  IF close.kind = "Err" THEN close ELSE ParseOk(close.rest, body.value)

quoted_string_mutant_unescape(in) ==
    LET open == tag(<<"'">>, in)
        res == IF open.kind = "Err" THEN open ELSE delimited_close(esc_or_empty(open.rest))
    IN  IF res.kind = "Err" THEN res
        ELSE ParseOk(res.rest, SelectSeq(res.value, LAMBDA c : c # "\\"))

\* parse::quoted_string
quoted_string(in) ==
    LET open == tag(<<"'">>, in)
    IN  IF open.kind = "Err" THEN open ELSE delimited_close(esc_or_empty(open.rest))

quoted_nonempty_string_mutant_may_be_empty(in) == quoted_string(in)

\* parse::quoted_nonempty_string
quoted_nonempty_string(in) ==
    LET open == tag(<<"'">>, in)
    IN  IF open.kind = "Err" THEN open ELSE delimited_close(escaped(open.rest))

boolean_mutant_no_case(in) ==
    LET lower == [i \in 1..Len(in) |->
                    CASE in[i] = "T" -> "t" [] in[i] = "R" -> "r" [] in[i] = "U" -> "u"
                      [] in[i] = "E" -> "e" [] in[i] = "F" -> "f" [] in[i] = "A" -> "a"
                      [] in[i] = "L" -> "l" [] in[i] = "S" -> "s" [] OTHER -> in[i]]
        parse_true == tag(Chars("true"), lower)
        parse_false == tag(Chars("false"), lower)
    IN  IF parse_true.kind = "Ok"
        THEN ParseOk(SubSeq(in, 5, Len(in)), TRUE)
        ELSE IF parse_false.kind = "Ok"
             THEN ParseOk(SubSeq(in, 6, Len(in)), FALSE)
             ELSE ParseErr(in, "Tag")

\* parse::boolean: alt((value(true, tag("true")), value(false, tag("false"))))
boolean(in) ==
    LET parse_true == tag(Chars("true"), in)
        parse_false == tag(Chars("false"), in)
    IN  IF parse_true.kind = "Ok" THEN ParseOk(parse_true.rest, TRUE)
        ELSE IF parse_false.kind = "Ok" THEN ParseOk(parse_false.rest, FALSE)
        ELSE parse_false

\* Characters the quoted string parsers' inputs are drawn from.
QuotedChars == {"'", "\\", "a", ":"}

QuotedInputs == SeqsUpTo(QuotedChars, MaxQuotedLen)

\* Inputs of the boolean parser: the words of the tests, alone and followed
\* by more input, and every short string over the letters of `true`.
BoolWords ==
    {"true", "false", "True", "TRUE", "False", "FALSE", "1", "0", "yes", "no", "",
     "tru", "fals", "falsE", "ttrue", " true"}

BoolSuffixes == {"", ":next", "e", " "}

BoolInputs ==
    {Chars(w \o x) : w \in BoolWords, x \in BoolSuffixes}
        \cup SeqsUpTo({"t", "r", "u", "e"}, MaxBoolLen)

QuotedInit ==
    /\ text \in QuotedInputs
    /\ quoted = Pending
    /\ nonempty = Pending
    /\ truth = Pending
    /\ client = Pending

BoolInit ==
    /\ text \in BoolInputs
    /\ quoted = Pending
    /\ nonempty = Pending
    /\ truth = Pending
    /\ client = Pending

\* quoted_string(text)
QuotedString ==
    /\ quoted = Pending
    /\ quoted' = quoted_string(text)
    /\ UNCHANGED <<text, nonempty, truth, client>>
    /\ UNCHANGED exceptLex

\* quoted_nonempty_string(text)
QuotedNonemptyString ==
    /\ nonempty = Pending
    /\ nonempty' = quoted_nonempty_string(text)
    /\ UNCHANGED <<text, quoted, truth, client>>
    /\ UNCHANGED exceptLex

\* boolean(text)
Boolean ==
    /\ truth = Pending
    /\ truth' = boolean(text)
    /\ UNCHANGED <<text, quoted, nonempty, client>>
    /\ UNCHANGED exceptLex

----------------------------------------------------------------------------
(* client.rs: Client::from_str *)

Client(session_name, last_session_name) ==
    [session_name |-> session_name, last_session_name |-> last_session_name]

\* The tuple parser (quoted_nonempty_string, char(':'), quoted_string): each
\* parser runs on what the one before left, the first error is the result.
client_tuple_mutant_both_may_be_empty(in) ==
    LET first == quoted_string(in) IN
    IF first.kind = "Err" THEN first
    ELSE LET colon == char(":", first.rest) IN
         IF colon.kind = "Err" THEN colon
         ELSE LET last == quoted_string(colon.rest) IN
              IF last.kind = "Err" THEN last
              ELSE ParseOk(last.rest, Client(first.value, last.value))

client_tuple(in) ==
    LET first == quoted_nonempty_string(in) IN
    IF first.kind = "Err" THEN first
    ELSE LET colon == char(":", first.rest) IN
         IF colon.kind = "Err" THEN colon
         ELSE LET last == quoted_string(colon.rest) IN
              IF last.kind = "Err" THEN last
              ELSE ParseOk(last.rest, Client(first.value, last.value))

\* <Client as FromStr>::from_str
Client_from_str(in) ==
    LET res == all_consuming(client_tuple(in))
    IN  IF res.kind = "Err"
        THEN map_add_intent("Client", "'##{client_session}':'##{client_last_session}'", res)
        ELSE [kind |-> "Ok", value |-> res.value]

ClientInputs == SeqsUpTo(QuotedChars, MaxClientLen)

ClientInit ==
    /\ text \in ClientInputs
    /\ quoted = Pending
    /\ nonempty = Pending
    /\ truth = Pending
    /\ client = Pending

\* Client::from_str(text)
ClientFromStr ==
    /\ client = Pending
    /\ client' = Client_from_str(text)
    /\ UNCHANGED <<text, quoted, nonempty, truth>>
    /\ UNCHANGED exceptLex

----------------------------------------------------------------------------
(* utils.rs: the pane capture post-processor *)

\* "\u{001b}[0m".as_bytes()
reset == <<27, 91, 48, 109>>

is_whitespace(c) == c = 9 \/ c = 32

trim_trailing_mutant_spaces_only(line) ==
    IF \E i \in 1..Len(line) : line[i] # 32
    THEN SubSeq(line, 1, CHOOSE last \in 1..Len(line) :
                            /\ line[last] # 32
                            /\ \A i \in (last + 1)..Len(line) : line[i] = 32)
    ELSE <<>>

\* <[u8] as SliceExt>::trim_trailing
trim_trailing(line) ==
    IF \E i \in 1..Len(line) : ~is_whitespace(line[i])
    THEN SubSeq(line, 1, CHOOSE last \in 1..Len(line) :
                            /\ ~is_whitespace(line[last])
                            /\ \A i \in (last + 1)..Len(line) : is_whitespace(line[i]))
    ELSE <<>>

\* buf.split(|c| *c == b'\n'): the pieces between line feeds, one more than
\* there are line feeds.
RECURSIVE split(_)
split(buf) ==
    IF \E i \in 1..Len(buf) : buf[i] = 10
    THEN LET first == CHOOSE i \in 1..Len(buf) :
                          buf[i] = 10 /\ \A j \in 1..(i - 1) : buf[j] # 10
         IN  <<SubSeq(buf, 1, first - 1)>> \o split(SubSeq(buf, first + 1, Len(buf)))
    ELSE <<buf>>

buf_trim_trailing(buf) ==
    LET lines == split(buf) IN [i \in 1..Len(lines) |-> trim_trailing(lines[i])]

drop_last_empty_lines(lines) ==
    IF \E i \in 1..Len(lines) : lines[i] # <<>>
    THEN SubSeq(lines, 1, CHOOSE last \in 1..Len(lines) :
                             /\ lines[last] # <<>>
                             /\ \A i \in (last + 1)..Len(lines) : lines[i] = <<>>)
    ELSE lines

Returned(bytes) == [kind |-> "Returned", bytes |-> bytes]

\* buffer.truncate(buffer.len() - drop_n_last_lines). Where the usize
\* subtraction overflows, a build with overflow checks panics and a build
\* without them wraps to 2^w - (n - len), which is more than len (n is a
\* usize, below 2^w): truncate then keeps every line.
truncate_mutant_front(lines, n, checked) ==
    IF n <= Len(lines)
    THEN [kind |-> "Truncated", lines |-> SubSeq(lines, n + 1, Len(lines))]
    ELSE IF checked THEN Panic("attempt to subtract with overflow") ELSE [kind |-> "Truncated", lines |-> lines]

truncate(lines, n, checked) ==
    IF n <= Len(lines)
    THEN [kind |-> "Truncated", lines |-> SubSeq(lines, 1, Len(lines) - n)]
    ELSE IF checked THEN Panic("attempt to subtract with overflow") ELSE [kind |-> "Truncated", lines |-> lines]

extend_lines_mutant_reset_everywhere(lines) ==
    LET RECURSIVE from(_)
        from(idx) ==
            IF idx > Len(lines) THEN <<>>
            ELSE lines[idx] \o reset \o <<10>> \o from(idx + 1)
    IN  from(1)

\* The loop that fills final_buffer: each line, the reset after the last
\* one, a line feed after each.
extend_lines(lines) ==
    LET RECURSIVE from(_)
        from(idx) ==
            IF idx > Len(lines) THEN <<>>
            ELSE LET is_last_line == idx = Len(lines)
                 IN  lines[idx]
                     \o (IF is_last_line THEN reset \o <<10>> ELSE <<10>>)
                     \o from(idx + 1)
    IN  from(1)

cleanup_captured_buffer(buf, n, checked) ==
    LET trimmed_lines == buf_trim_trailing(buf)
        kept == truncate(drop_last_empty_lines(trimmed_lines), n, checked)
    IN  IF kept.kind = "Panic" THEN kept ELSE Returned(extend_lines(kept.lines))

\* What captured buffers are made of: tab, space, line feed, a letter, and
\* the reset sequence as tmux emits it inside a capture.
Pieces == {<<9>>, <<32>>, <<10>>, <<97>>, reset}

RECURSIVE PieceBuffers(_, _)
PieceBuffers(pieces, n) ==
    IF n = 0 THEN {<<>>}
    ELSE LET shorter == PieceBuffers(pieces, n - 1)
         IN  shorter \cup {b \o piece : b \in shorter, piece \in pieces}

\* `buf` with `ws` appended to its line number `line` and `extra` line feeds
\* appended to the whole.
Pad(buf, line, ws, extra) ==
    LET lines == split(buf)
        RECURSIVE join(_)
        join(i) ==
            (IF i = line THEN lines[i] \o ws ELSE lines[i])
            \o (IF i = Len(lines) THEN <<>> ELSE <<10>> \o join(i + 1))
    IN  join(1) \o [i \in 1..extra |-> 10]

CaptureInit ==
    /\ buffer \in PieceBuffers(Pieces, MaxPieces)
    /\ drop_n_last_lines \in 0..MaxDrop
    /\ overflow_checks \in BOOLEAN
    /\ final_buffer = Pending
    /\ padded = <<>>
    /\ padded_final = Pending

PaddedInit ==
    /\ buffer \in PieceBuffers(Pieces, MaxPaddedPieces)
    /\ drop_n_last_lines \in 0..MaxDrop
    /\ overflow_checks \in BOOLEAN
    /\ final_buffer = Pending
    /\ padded = <<>>
    /\ padded_final = Pending

\* cleanup_captured_buffer(buffer, drop_n_last_lines)
CleanupCapturedBuffer ==
    /\ final_buffer = Pending
    /\ final_buffer' = cleanup_captured_buffer(buffer, drop_n_last_lines, overflow_checks)
    /\ UNCHANGED <<buffer, drop_n_last_lines, overflow_checks, padded, padded_final>>
    /\ UNCHANGED exceptCap

\* cleanup_captured_buffer on the same capture with a space or a tab more
\* at the end of one line and more line feeds at the end.
CleanupPadded ==
    /\ padded_final = Pending
    /\ \E line \in 1..Len(split(buffer)), ws \in {<<>>, <<32>>, <<9>>},
          extra \in 0..MaxExtraNewlines :
          /\ padded' = Pad(buffer, line, ws, extra)
          /\ padded_final' =
                cleanup_captured_buffer(padded', drop_n_last_lines, overflow_checks)
    /\ UNCHANGED <<buffer, drop_n_last_lines, overflow_checks, final_buffer>>
    /\ UNCHANGED exceptCap

----------------------------------------------------------------------------
(* server.rs, client.rs: the operations that run tmux once *)

\* String::from_utf8: the String of a buffer of ASCII bytes, the error for a
\* buffer with a byte that is no UTF-8 (the buffers here hold no multi-byte
\* sequence).
from_utf8(bytes) ==
    IF \A i \in 1..Len(bytes) : bytes[i] < 128
    THEN [kind |-> "Ok", value |-> [i \in 1..Len(bytes) |-> AsciiChar(bytes[i])]]
    ELSE [kind |-> "Utf8"]

White_Space == {" ", "\t", "\n"}

\* str::trim_end
trim_end(s) ==
    SubSeq(s, 1, Cardinality({k \in 1..Len(s) : \E j \in k..Len(s) : s[j] \notin White_Space}))

\* str::trim_start
trim_start(s) ==
    SubSeq(s, 1 + Cardinality({k \in 1..Len(s) : \A j \in 1..k : s[j] \in White_Space}), Len(s))

\* str::split('\n')
RECURSIVE split_lines(_)
split_lines(s) ==
    IF \E i \in 1..Len(s) : s[i] = "\n"
    THEN LET first == CHOOSE i \in 1..Len(s) :
                          s[i] = "\n" /\ \A j \in 1..(i - 1) : s[j] # "\n"
         IN  <<SubSeq(s, 1, first - 1)>> \o split_lines(SubSeq(s, first + 1, Len(s)))
    ELSE <<s>>

pairs_mutant_keeps_quotes(buf) ==
    LET lines == split_lines(trim_end(buf))
        find(s) == CHOOSE i \in 1..Len(s) : s[i] = " " /\ \A j \in 1..(i - 1) : s[j] # " "
        k(s) == SubSeq(s, 1, find(s) - 1)
        v(s) == trim_start(SubSeq(s, find(s), Len(s)))
        kept == {i \in 1..Len(lines) : v(lines[i]) # <<>>}
    IN  IF \E i \in 1..Len(lines) : " " \notin {lines[i][j] : j \in 1..Len(lines[i])}
        THEN Panic("called Option::unwrap() on a None value")
        ELSE [kind |-> "Ok",
              value |-> [key \in {k(lines[i]) : i \in kept} |->
                            v(lines[CHOOSE i \in kept :
                                       /\ k(lines[i]) = key
                                       /\ \A j \in kept : k(lines[j]) = key => j <= i])]]

\* The iterator chain of show_options on the decoded stdout, up to the
\* HashMap it collects (a later line of a key replaces an earlier one).
\* s.find(' ').unwrap() panics on a line without a space.
pairs(buf) ==
    LET lines == split_lines(trim_end(buf))
        find(s) == CHOOSE i \in 1..Len(s) : s[i] = " " /\ \A j \in 1..(i - 1) : s[j] # " "
        k(s) == SubSeq(s, 1, find(s) - 1)
        v(s) == trim_start(SubSeq(s, find(s), Len(s)))
        kept == {i \in 1..Len(lines) : v(lines[i]) # <<>> /\ v(lines[i]) # <<"'", "'">>}
    IN  IF \E i \in 1..Len(lines) : " " \notin {lines[i][j] : j \in 1..Len(lines[i])}
        THEN Panic("called Option::unwrap() on a None value")
        ELSE [kind |-> "Ok",
              value |-> [key \in {k(lines[i]) : i \in kept} |->
                            v(lines[CHOOSE i \in kept :
                                       /\ k(lines[i]) = key
                                       /\ \A j \in kept : k(lines[j]) = key => j <= i])]]

default_command_mutant_login_always(all_options) ==
    IF Chars("default-shell") \notin DOMAIN all_options
    THEN [kind |-> "TmuxConfig", message |-> "no default-shell"]
    ELSE LET chosen == IF Chars("default-command") \in DOMAIN all_options
                       THEN all_options[Chars("default-command")]
                       ELSE all_options[Chars("default-shell")]
         IN  [kind |-> "Ok",
              value |-> IF Len(chosen) >= 4 /\ SubSeq(chosen, Len(chosen) - 3, Len(chosen)) = Chars("bash")
                        THEN Chars("-l ") \o chosen ELSE chosen]

default_command_mutant_command_first(all_options) ==
    IF Chars("default-command") \in DOMAIN all_options
    THEN [kind |-> "Ok", value |-> all_options[Chars("default-command")]]
    ELSE IF Chars("default-shell") \in DOMAIN all_options
         THEN LET cmd == all_options[Chars("default-shell")]
              IN  [kind |-> "Ok",
                   value |-> IF Len(cmd) >= 4 /\ SubSeq(cmd, Len(cmd) - 3, Len(cmd)) = Chars("bash")
                             THEN Chars("-l ") \o cmd ELSE cmd]
         ELSE [kind |-> "TmuxConfig", message |-> "no default-command nor default-shell"]

\* default_command, from the map show_options(true) returned: `?` returns
\* the missing default-shell; .or(Some(&default_shell)) is always Some, so
\* the ok_or after it never yields its error.
default_command(all_options) ==
    IF Chars("default-shell") \notin DOMAIN all_options
    THEN [kind |-> "TmuxConfig", message |-> "no default-shell"]
    ELSE LET cmd == all_options[Chars("default-shell")]
             default_shell ==
                 IF Len(cmd) >= 4 /\ SubSeq(cmd, Len(cmd) - 3, Len(cmd)) = Chars("bash")
                 THEN Chars("-l ") \o cmd ELSE cmd
         IN  [kind |-> "Ok",
              value |-> IF Chars("default-command") \in DOMAIN all_options
                        THEN all_options[Chars("default-command")]
                        ELSE default_shell]

\* str::as_bytes, of ASCII text.
as_bytes(s) == [i \in 1..Len(s) |-> CHOOSE b \in 9..126 : AsciiChar(b) = SubSeq(s, i, i)]

\* Lines that tmux show-options -g prints, each with its line feed.
OptionLines ==
    {as_bytes(line) \o <<10>> : line \in {"default-shell /bin/bash", "default-shell /bin/zsh",
                                          "default-command /bin/bash", "default-command ''",
                                          "status on"}}

\* What the stdout of a command is made of here.
StdoutPieces == {<<39, 97, 39>>, <<39, 39>>, <<58>>, <<97>>, <<32>>, <<10>>, <<255>>}

\* What running tmux can yield.
TmuxOutcomes ==
    {IoOutcome} \cup
    {OutputOutcome(o) : o \in [status : Statuses,
                               stdout : PieceBuffers(StdoutPieces, MaxStdoutPieces),
                               stderr : {<<>>, <<97>>}]}

\* server::kill_session
KillSession ==
    /\ op = "none"
    /\ op' = "kill_session"
    /\ \E outcome \in TmuxOutcomes :
          /\ ran' = outcome
          /\ returned' =
                IF outcome = IoOutcome THEN IoError
                ELSE check_empty_process_output(outcome.output, "kill-session")
    /\ UNCHANGED exceptOp

\* server::show_option
ShowOption ==
    /\ op = "none"
    /\ op' = "show_option"
    /\ \E outcome \in TmuxOutcomes :
          /\ ran' = outcome
          /\ returned' =
                IF outcome = IoOutcome THEN IoError
                ELSE LET decoded == from_utf8(outcome.output.stdout) IN
                     IF decoded.kind # "Ok" THEN decoded
                     ELSE LET trimmed == trim_end(decoded.value) IN
                          IF trimmed = <<>> THEN [kind |-> "Ok", value |-> <<>>]
                          ELSE [kind |-> "Ok", value |-> <<trimmed>>]
    /\ UNCHANGED exceptOp

\* server::show_options
ShowOptions ==
    /\ op = "none"
    /\ op' = "show_options"
    /\ \E outcome \in TmuxOutcomes :
          /\ ran' = outcome
          /\ returned' =
                IF outcome = IoOutcome THEN IoError
                ELSE LET decoded == from_utf8(outcome.output.stdout) IN
                     IF decoded.kind # "Ok" THEN decoded ELSE pairs(decoded.value)
    /\ UNCHANGED exceptOp

\* client::current
Current ==
    /\ op = "none"
    /\ op' = "current"
    /\ \E outcome \in TmuxOutcomes :
          /\ ran' = outcome
          /\ returned' =
                IF outcome = IoOutcome THEN IoError
                ELSE LET decoded == from_utf8(outcome.output.stdout) IN
                     IF decoded.kind # "Ok" THEN decoded
                     ELSE Client_from_str(trim_end(decoded.value))
    /\ UNCHANGED exceptOp

SwitchClient_mutant_validates ==
    /\ op = "none"
    /\ op' = "switch_client"
    /\ \E outcome \in TmuxOutcomes :
          /\ ran' = outcome
          /\ returned' =
                IF outcome = IoOutcome THEN IoError
                ELSE check_empty_process_output(outcome.output, "switch-client")
    /\ UNCHANGED exceptOp

\* client::switch_client
SwitchClient ==
    /\ op = "none"
    /\ op' = "switch_client"
    /\ \E outcome \in TmuxOutcomes :
          /\ ran' = outcome
          /\ returned' =
                IF outcome = IoOutcome
                THEN Panic("Cannot communicate with Tmux for switching the client")
                ELSE Ok
    /\ UNCHANGED exceptOp

\* client::display_message; it returns ().
DisplayMessage ==
    /\ op = "none"
    /\ op' = "display_message"
    /\ \E outcome \in TmuxOutcomes :
          /\ ran' = outcome
          /\ returned' =
                IF outcome = IoOutcome
                THEN Panic("Cannot communicate with Tmux for displaying message")
                ELSE [kind |-> "Unit"]
    /\ UNCHANGED exceptOp

\* server::default_command
DefaultCommand ==
    /\ op = "none"
    /\ op' = "default_command"
    /\ \E outcome \in {IoOutcome} \cup
                       {OutputOutcome(o) :
                           o \in [status : Statuses,
                                  stdout : PieceBuffers(OptionLines, MaxOptionLines),
                                  stderr : {<<>>, <<97>>}]} :
          /\ ran' = outcome
          /\ returned' =
                IF outcome = IoOutcome THEN IoError
                ELSE LET decoded == from_utf8(outcome.output.stdout) IN
                     IF decoded.kind # "Ok" THEN decoded
                     ELSE LET all_options == pairs(decoded.value) IN
                          IF all_options.kind # "Ok" THEN all_options
                          ELSE default_command(all_options.value)
    /\ UNCHANGED exceptOp

----------------------------------------------------------------------------
(* Specifications of the pure functions *)

ValSpecInit == ValInit /\ StartIdle /\ IdIdle /\ LexIdle /\ CapIdle /\ OpIdle

ValNext == CallCheckEmpty \/ CallCheckSuccess

\* Either validator applied once to an arbitrary output.
ValSpec == ValSpecInit /\ [][ValNext]_vars

IdSpecInit == IdInit /\ StartIdle /\ ValIdle /\ LexIdle /\ CapIdle /\ OpIdle

IdNext == ParseId \/ FromStr

\* The id parser and the typed constructor applied to an arbitrary string.
IdSpec == IdSpecInit /\ [][IdNext]_vars

RoundTripSpecInit == RoundTripInit /\ StartIdle /\ ValIdle /\ LexIdle /\ CapIdle /\ OpIdle

RoundTripNext == FromStr

\* The typed constructor applied to the text of every id number.
RoundTripSpec == RoundTripSpecInit /\ [][RoundTripNext]_vars

QuotedSpecInit == QuotedInit /\ StartIdle /\ ValIdle /\ IdIdle /\ CapIdle /\ OpIdle

QuotedNext == QuotedString \/ QuotedNonemptyString

\* Both quoted string parsers applied to an arbitrary string.
QuotedSpec == QuotedSpecInit /\ [][QuotedNext]_vars

BoolSpecInit == BoolInit /\ StartIdle /\ ValIdle /\ IdIdle /\ CapIdle /\ OpIdle

BoolNext == Boolean

\* The boolean parser applied to an arbitrary string.
BoolSpec == BoolSpecInit /\ [][BoolNext]_vars

ClientSpecInit == ClientInit /\ StartIdle /\ ValIdle /\ IdIdle /\ CapIdle /\ OpIdle

ClientNext == ClientFromStr

\* Client::from_str applied to an arbitrary string.
ClientSpec == ClientSpecInit /\ [][ClientNext]_vars

FromStrSpecInit ==
    /\ StartIdle
    /\ ValIdle
    /\ \/ IdInit /\ LexIdle
       \/ ClientInit /\ IdIdle
    /\ CapIdle
    /\ OpIdle

FromStrNext == FromStr \/ ClientFromStr

\* The three typed constructors, each applied to an arbitrary string.
FromStrSpec == FromStrSpecInit /\ [][FromStrNext]_vars

CaptureSpecInit == CaptureInit /\ StartIdle /\ ValIdle /\ IdIdle /\ LexIdle /\ OpIdle

CaptureNext == CleanupCapturedBuffer

\* The post-processor applied to an arbitrary capture and drop count.
CaptureSpec == CaptureSpecInit /\ [][CaptureNext]_vars

PaddedSpecInit == PaddedInit /\ StartIdle /\ ValIdle /\ IdIdle /\ LexIdle /\ OpIdle

PaddedNext == CleanupCapturedBuffer \/ CleanupPadded

\* The post-processor applied to a capture and to the same capture padded.
PaddedSpec == PaddedSpecInit /\ [][PaddedNext]_vars

OpSpecInit == OpIdle /\ StartIdle /\ ValIdle /\ IdIdle /\ LexIdle /\ CapIdle

OpNext ==
    \/ KillSession
    \/ ShowOption
    \/ ShowOptions
    \/ Current
    \/ SwitchClient
    \/ DisplayMessage
    \/ DefaultCommand

\* One call of an operation that runs tmux once.
OpSpec == OpSpecInit /\ [][OpNext]_vars

----------------------------------------------------------------------------
(* Claims about the readiness loop *)

\* C1: start() returns Ok only after a list-sessions invocation exited with
\* status zero, and then after exactly N + 1 invocations, N being the number
\* of invocations that exited non-zero before it; and whenever an invocation
\* exited zero, what start() returns is Ok.
C1_ReadinessSuccess ==
    /\ result = Ok =>
         /\ exits.zero = 1
         /\ exits.io = 0
         /\ polls = exits.nonzero + 1
    /\ pc = "Done" /\ exits.zero > 0 => result = Ok

C1_Witness ==
    /\ result = Ok
    /\ exits.nonzero = 2
    /\ polls = 3

\* C2: wait_for_server_ready terminates, and when every list-sessions
\* invocation exited non-zero it returns UnexpectedTmuxOutput with intent
\* "wait-for-server-ready", empty stdout and stderr "server did not become
\* ready within 5s".
C2_ReadinessTimeout ==
    /\ [](pc = "Done" /\ polls > 0 /\ exits.zero = 0 /\ exits.io = 0 =>
            /\ result.kind = "UnexpectedTmuxOutput"
            /\ result.intent = "wait-for-server-ready"
            /\ result.stdout = <<>>
            /\ result.stderr = Chars("server did not become ready within 5s"))
    /\ (polls > 0 ~> pc = "Done")

C2_Witness ==
    /\ pc = "Done"
    /\ result.kind = "UnexpectedTmuxOutput"
    /\ result.intent = "wait-for-server-ready"
    /\ exits.nonzero >= 2
    /\ exits.zero = 0
    /\ exits.io = 0

\* C3: an io::Error of a list-sessions invocation is returned by the very
\* next step of the poller, whatever the timers say, with no further
\* invocation and no sleep; every invocation but the first follows a non-zero
\* exit and its sleep.
C3_IoSurfaces ==
    /\ [](/\ polls > 0 => polls <= exits.nonzero + 1 /\ sleeps <= exits.nonzero
          /\ result = IoError /\ polls > 0 =>
               /\ exits.io = 1
               /\ exits.zero = 0
               /\ polls = exits.nonzero + 1
               /\ sleeps = exits.nonzero)
    /\ [][(pc = "AwaitListSessions" /\ child.state = "done"
                /\ child.outcome.kind = "io") =>
            \/ pc' = "Done" /\ result' = IoError /\ now' = now
                 /\ polls' = polls /\ sleeps' = sleeps
            \/ UNCHANGED <<pc, child, polls, sleeps, result>>]_vars

C3_Witness ==
    /\ result = IoError
    /\ exits.nonzero >= 1
    /\ polls = exits.nonzero + 1
    /\ now < deadline

----------------------------------------------------------------------------
(* Claims about the validators *)

BothEmpty == output.stdout = <<>> /\ output.stderr = <<>>

\* C4: check_empty_process_output succeeds iff stdout and stderr are both
\* empty, whatever the exit status.
C4_RequireEmpty ==
    validator = "check_empty_process_output" =>
        /\ BothEmpty => verdict = Ok
        /\ ~BothEmpty => verdict # Ok

C4_Witness ==
    /\ validator = "check_empty_process_output"
    /\ verdict = Ok
    /\ ExitCode(output.status) # 0

\* C5 as stated: the empty-output validator succeeds iff the exit status is
\* zero and both streams are empty.
C5_Original ==
    validator = "check_empty_process_output" =>
        (verdict = Ok <=> (ExitCode(output.status) = 0 /\ BothEmpty))

\* C5, amended: the empty-output validator succeeds iff both streams are
\* empty; the exit status is not consulted, so the same streams get the same
\* verdict under every status.
C5_Amended ==
    validator = "check_empty_process_output" =>
        /\ verdict = Ok <=> BothEmpty
        /\ \A s \in Statuses :
             check_empty_process_output([output EXCEPT !.status = s], intent) = verdict

C5_Witness ==
    /\ validator = "check_empty_process_output"
    /\ output.status = 256
    /\ BothEmpty
    /\ verdict = Ok

\* C6: check_process_success succeeds iff the exit status is zero, whatever
\* stdout and stderr hold.
C6_RequireSuccess ==
    validator = "check_process_success" =>
        (verdict = Ok <=> ExitCode(output.status) = 0)

C6_Witness ==
    /\ validator = "check_process_success"
    /\ verdict = Ok
    /\ output.stdout # <<>>
    /\ output.stderr # <<>>

\* C7: a failing validator returns UnexpectedTmuxOutput carrying the intent it
\* was given and the text of the output's stdout and stderr, and no validator
\* changes the output it inspects.
C7_ErrorPayload ==
    /\ [](validator # "none" /\ verdict # Ok =>
            /\ verdict.kind = "UnexpectedTmuxOutput"
            /\ verdict.intent = intent
            /\ verdict.stdout = from_utf8_lossy(output.stdout)
            /\ verdict.stderr = from_utf8_lossy(output.stderr)
            /\ output.stdout = <<97>> => verdict.stdout = <<"a">>
            /\ output.stderr = <<195, 169>> => verdict.stderr = <<"U+00E9">>
            /\ output.stderr = <<169, 97>> => verdict.stderr = <<"U+FFFD", "a">>)
    /\ [][output' = output /\ intent' = intent]_vars

C7_Witness ==
    /\ validator = "check_process_success"
    /\ verdict.kind = "UnexpectedTmuxOutput"
    /\ output.stdout = <<97>>
    /\ output.stderr = <<169, 97>>

----------------------------------------------------------------------------
(* Claims about the ids *)

WellFormedId(kind, in) ==
    /\ Len(in) >= 2
    /\ in[1] = Prefix(kind)
    /\ \A i \in 2..Len(in) : in[i] \in AsciiDigits

\* C9: SessionId::from_str and WindowId::from_str succeed exactly on the
\* strings <own prefix><one or more ASCII digits>: the empty string, a bare
\* prefix, another prefix, no prefix, a non-digit body and trailing characters
\* are all rejected.
C9_IdStrictness ==
    idKind \in {"SessionId", "WindowId"} /\ built # Pending =>
        (built.kind = "Ok" <=> WellFormedId(idKind, input))

C9_Witness ==
    /\ idKind = "WindowId"
    /\ input = Chars("@7:")
    /\ built.kind = "ParseError"

\* C10: the id parser consumes the prefix and all the digits that follow and
\* hands back the rest of the input with the id prefix + digits; the typed
\* constructor succeeds exactly when the parser does with nothing left, and
\* yields the same id.
C10_ParserAndConstructor ==
    idKind \in {"SessionId", "WindowId"} =>
        /\ parsed.kind = "Ok" =>
             /\ input = as_str(parsed.value) \o parsed.rest
             /\ WellFormedId(idKind, as_str(parsed.value))
             /\ parsed.rest = <<>> \/ Head(parsed.rest) \notin AsciiDigits
        /\ parsed # Pending /\ built # Pending =>
             /\ built.kind = "Ok" <=> (parsed.kind = "Ok" /\ parsed.rest = <<>>)
             /\ built.kind = "Ok" => built.value = parsed.value

C10_Witness ==
    /\ idKind = "SessionId"
    /\ input = Chars("$7:a")
    /\ parsed.kind = "Ok"
    /\ parsed.rest = Chars(":a")
    /\ as_str(parsed.value) = Chars("$7")
    /\ built.kind = "ParseError"

----------------------------------------------------------------------------
(* Claims about the lexical parsers *)

\* A quoted body: every backslash is followed by a quote and every quote is
\* preceded by a backslash.
IsQuotedBody(body) ==
    \A i \in 1..Len(body) :
        /\ body[i] = "\\" => i < Len(body) /\ body[i + 1] = "'"
        /\ body[i] = "'" => i > 1 /\ body[i - 1] = "\\"

\* The positions of `in` at which a quoted body that starts after an opening
\* quote is closed.
ClosingQuotes(in) ==
    {k \in 2..Len(in) :
        in[1] = "'" /\ in[k] = "'" /\ IsQuotedBody(SubSeq(in, 2, k - 1))}

\* C11: quoted_string accepts exactly the inputs '<body>'<rest>, where body
\* is a possibly empty quoted body; it returns the body as it is written,
\* escapes included, and the text after the closing quote as remaining input.
\* Input with no opening quote or no closing quote is rejected.
C11_QuotedString ==
    quoted # Pending =>
        /\ quoted.kind = "Ok" <=> ClosingQuotes(text) # {}
        /\ quoted.kind = "Ok" =>
             \E k \in ClosingQuotes(text) :
                /\ quoted.value = SubSeq(text, 2, k - 1)
                /\ quoted.rest = SubSeq(text, k + 1, Len(text))
        /\ text = Chars("''") => quoted.kind = "Ok" /\ quoted.value = <<>>

C11_Witness ==
    /\ text = <<"'", "\\", "'", "'", ":">>
    /\ quoted.kind = "Ok"
    /\ quoted.value = <<"\\", "'">>
    /\ quoted.rest = <<":">>

\* C12: quoted_nonempty_string rejects the inputs that open with '' and on
\* every other input returns what quoted_string returns: the same decision,
\* the same body and the same remaining input.
C12_QuotedNonempty ==
    quoted # Pending /\ nonempty # Pending =>
        /\ nonempty.kind = "Ok" <=> (quoted.kind = "Ok" /\ quoted.value # <<>>)
        /\ nonempty.kind = "Ok" =>
             nonempty.value = quoted.value /\ nonempty.rest = quoted.rest
        /\ Len(text) >= 2 /\ text[1] = "'" /\ text[2] = "'" => nonempty.kind = "Err"

C12_Witness ==
    /\ text = Chars("''")
    /\ quoted.kind = "Ok"
    /\ nonempty.kind = "Err"

StartsWith(in, word) ==
    Len(in) >= Len(word) /\ SubSeq(in, 1, Len(word)) = Chars(word)

\* C13: boolean succeeds exactly when the input starts with `true` (the value
\* is true) or with `false` (the value is false), and returns what follows as
\* remaining input; case variants, numerals, yes/no and the empty input fail.
C13_Boolean ==
    truth # Pending =>
        /\ truth.kind = "Ok" <=> (StartsWith(text, "true") \/ StartsWith(text, "false"))
        /\ StartsWith(text, "true") =>
             truth.value = TRUE /\ truth.rest = SubSeq(text, 5, Len(text))
        /\ StartsWith(text, "false") =>
             truth.value = FALSE /\ truth.rest = SubSeq(text, 6, Len(text))
        /\ text \in {Chars(w) : w \in {"True", "TRUE", "FALSE", "1", "0", "yes", "no", ""}}
             => truth.kind = "Err"

C13_Witness ==
    /\ text = Chars("TRUE")
    /\ truth.kind = "Err"

----------------------------------------------------------------------------
(* Claims about the record parsers *)

\* The ways to read `in` as '<c>':'<l>': the positions of the quote closing c
\* and of the quote closing l, the latter being the last character.
ClientShapes(in) ==
    {<<k, n>> \in (2..Len(in)) \X {Len(in)} :
        /\ k + 2 < n
        /\ in[1] = "'" /\ in[k] = "'" /\ in[k + 1] = ":" /\ in[k + 2] = "'" /\ in[n] = "'"
        /\ k > 2
        /\ IsQuotedBody(SubSeq(in, 2, k - 1))
        /\ IsQuotedBody(SubSeq(in, k + 3, n - 1))}

\* C14: Client::from_str succeeds exactly on '<c>':'<l>' with c a non-empty
\* quoted body, l a possibly empty one, one colon between them and nothing
\* after; session_name is then c and last_session_name is l, as written. So
\* a parsed Client never has an empty session_name.
C14_ClientFromStr ==
    client # Pending =>
        /\ client.kind = "Ok" <=> ClientShapes(text) # {}
        /\ client.kind = "Ok" =>
             /\ client.value.session_name # <<>>
             /\ \E shape \in ClientShapes(text) :
                  /\ client.value.session_name = SubSeq(text, 2, shape[1] - 1)
                  /\ client.value.last_session_name =
                        SubSeq(text, shape[1] + 3, shape[2] - 1)
        /\ text \in {Chars("'':'a'"), Chars("a:a"), Chars("'a''a'"), Chars("'a':'':a")}
             => client.kind = "ParseError"

C14_Witness ==
    /\ text = Chars("'a':''")
    /\ client.kind = "Ok"
    /\ client.value = Client(<<"a">>, <<>>)

\* The format string a record is queried with, by entity.
ExpectedIntent(desc) ==
    CASE desc = "SessionId" -> "##{session_id}"
      [] desc = "WindowId" -> "##{window_id}"
      [] desc = "Client" -> "'##{client_session}':'##{client_last_session}'"

\* C15: whenever SessionId::from_str, WindowId::from_str or Client::from_str
\* fails, the error is a ParseError whose desc names the entity and whose
\* intent is the entity's format string; no other error kind is produced.
C15_ParseErrorPayload ==
    /\ (idKind \in {"SessionId", "WindowId"} /\ built # Pending /\ built.kind # "Ok") =>
         /\ built.kind = "ParseError"
         /\ built.desc = idKind
         /\ built.intent = ExpectedIntent(idKind)
    /\ (client # Pending /\ client.kind # "Ok") =>
         /\ client.kind = "ParseError"
         /\ client.desc = "Client"
         /\ client.intent = ExpectedIntent("Client")

C15_Witness ==
    /\ idKind = "WindowId"
    /\ input = Chars("7:a")
    /\ built = ParseError("WindowId", "##{window_id}",
                          [input |-> Chars("7:a"), code |-> "Char"])

----------------------------------------------------------------------------
(* Claims about the capture post-processor *)

\* A buffer with a byte that is not a space, a tab or a line feed.
HasText(buf) == \E i \in 1..Len(buf) : buf[i] \notin {9, 32, 10}

ResetLineEnds(bytes) ==
    {i \in 1..(Len(bytes) - Len(reset)) :
        SubSeq(bytes, i, i + Len(reset)) = reset \o <<10>>}

\* C17, as stated: a non-empty output ends with the reset sequence and a
\* line feed, and no other line of it ends with the reset sequence.
C17_Original ==
    (final_buffer.kind = "Returned" /\ final_buffer.bytes # <<>>) =>
        ResetLineEnds(final_buffer.bytes) = {Len(final_buffer.bytes) - Len(reset)}

\* C17, amended: a non-empty output ends with the reset sequence and a line
\* feed, and that is the only thing added: every line of the output is the
\* line of the capture at the same position without its trailing spaces and
\* tabs, the last one followed by the reset sequence. A line before the
\* last ends with the reset sequence only where the captured line does.
C17_Amended ==
    (final_buffer.kind = "Returned" /\ final_buffer.bytes # <<>>) =>
        LET bytes == final_buffer.bytes
            lines == split(SubSeq(bytes, 1, Len(bytes) - 1))
            captured == split(buffer)
        IN  /\ Len(bytes) - Len(reset) \in ResetLineEnds(bytes)
            /\ Len(lines) <= Len(captured)
            /\ \A i \in 1..Len(lines) :
                 /\ \E k \in 0..Len(captured[i]) :
                      /\ lines[i] = SubSeq(captured[i], 1, k)
                                    \o (IF i = Len(lines) THEN reset ELSE <<>>)
                      /\ \A j \in (k + 1)..Len(captured[i]) : captured[i][j] \in {9, 32}
                      /\ k > 0 => captured[i][k] \notin {9, 32}

C17_Witness ==
    /\ buffer = reset \o <<10, 97, 32>>
    /\ drop_n_last_lines = 0
    /\ final_buffer = Returned(reset \o <<10, 97>> \o reset \o <<10>>)

\* The lines of a capture without their trailing spaces and tabs.
TrimmedLines(buf) ==
    LET lines == split(buf)
    IN  [i \in 1..Len(lines) |->
           SubSeq(lines[i], 1,
                  Cardinality({k \in 1..Len(lines[i]) :
                                  \E j \in k..Len(lines[i]) : lines[i][j] \notin {9, 32}}))]

\* The number of lines up to the last one that is not empty.
LastNonEmpty(lines) == Cardinality({k \in 1..Len(lines) : \E j \in k..Len(lines) : lines[j] # <<>>})

\* Lines joined by line feeds, the reset sequence and a line feed at the end.
RECURSIVE Joined(_)
Joined(lines) ==
    IF lines = <<>> THEN <<>>
    ELSE IF Len(lines) = 1 THEN lines[1] \o reset \o <<10>>
    ELSE lines[1] \o <<10>> \o Joined(Tail(lines))

\* C18, as stated: with the cleaned lines being the trimmed lines without
\* the trailing run of empty ones and L their count, a drop count k <= L
\* yields the first L - k cleaned lines, joined.
C18_Original ==
    LET trimmed == TrimmedLines(buffer)
        cleaned == SubSeq(trimmed, 1, LastNonEmpty(trimmed))
        L == Len(cleaned)
    IN  (final_buffer # Pending /\ drop_n_last_lines <= L) =>
            final_buffer = Returned(Joined(SubSeq(cleaned, 1, L - drop_n_last_lines)))

\* C18, amended: the same, the cleaned lines of a capture of empty lines
\* only being all of its lines (none is dropped, so L >= 1).
C18_Amended ==
    LET trimmed == TrimmedLines(buffer)
        cleaned == IF LastNonEmpty(trimmed) = 0 THEN trimmed
                   ELSE SubSeq(trimmed, 1, LastNonEmpty(trimmed))
        L == Len(cleaned)
    IN  (final_buffer # Pending /\ drop_n_last_lines <= L) =>
            /\ final_buffer = Returned(Joined(SubSeq(cleaned, 1, L - drop_n_last_lines)))
            /\ drop_n_last_lines = L => final_buffer = Returned(<<>>)

C18_Witness ==
    /\ buffer = <<97, 9, 10, 97>>
    /\ drop_n_last_lines = 1
    /\ final_buffer = Returned(<<97>> \o reset \o <<10>>)

\* C19: cleanup_captured_buffer returns a buffer for every capture and
\* every drop count, also one above the number of cleaned lines.
C19_NeverFails ==
    final_buffer # Pending => final_buffer.kind = "Returned"

\* The call that refutes C19: one cleaned line, two to drop, overflow checked.
C19_Panic ==
    /\ buffer = <<97, 10>>
    /\ drop_n_last_lines = 2
    /\ overflow_checks
    /\ final_buffer = Panic("attempt to subtract with overflow")

----------------------------------------------------------------------------
(* Claims about the operations *)

\* C20: an operation whose tmux invocation ran hands the output to its
\* validator before anything else: where the validator rejects the output
\* (for kill_session and switch_client: stdout or stderr is not empty; for
\* show_option, show_options and current: the exit status is not zero), the
\* operation returns the validator's error, and so it returns a success
\* only from an output its validator accepts.
C20_UniformShape ==
    (returned # Pending /\ ran # IoOutcome) =>
        /\ (op \in {"kill_session", "switch_client"}
              /\ check_empty_process_output(ran.output, "") # Ok)
              => returned.kind = "UnexpectedTmuxOutput"
        /\ (op \in {"show_option", "show_options", "current"}
              /\ check_process_success(ran.output, "") # Ok)
              => returned.kind = "UnexpectedTmuxOutput"

\* The call that refutes C20: tmux exits with status 1 and a message on
\* stderr, show_option returns Ok(None).
C20_Unvalidated ==
    /\ op = "show_option"
    /\ ran = OutputOutcome([status |-> 256, stdout |-> <<>>, stderr |-> <<97>>])
    /\ returned = [kind |-> "Ok", value |-> <<>>]

\* The text a line holds after its first space, leading spaces stripped.
AfterFirstSpace(s) ==
    LET first == Cardinality({k \in 1..Len(s) : \A j \in 1..k : s[j] # " "}) + 1
        rest == SubSeq(s, first, Len(s))
    IN  SubSeq(rest, Cardinality({k \in 1..Len(rest) : \A j \in 1..k : rest[j] = " "}) + 1,
               Len(rest))

\* C21: show_options returns the map of the non-empty lines of stdout: the
\* key of a line is what precedes its first space, its value what follows
\* with leading spaces stripped; a line whose value is empty or '' gives no
\* entry, and neither does an empty line or a wholly empty stdout. Stated
\* for a stdout whose non-empty lines all hold a space.
C21_OptionsMap ==
    (op = "show_options" /\ ran.kind = "output" /\ from_utf8(ran.output.stdout).kind = "Ok") =>
        LET lines == split_lines(from_utf8(ran.output.stdout).value)
            Key(s) == SubSeq(s, 1, Cardinality({k \in 1..Len(s) : \A j \in 1..k : s[j] # " "}))
            entries == {i \in 1..Len(lines) :
                           /\ lines[i] # <<>>
                           /\ AfterFirstSpace(lines[i]) \notin {<<>>, <<"'", "'">>}}
        IN  (\A i \in 1..Len(lines) :
                lines[i] = <<>> \/ " " \in {lines[i][j] : j \in 1..Len(lines[i])})
            => /\ returned.kind = "Ok"
               /\ DOMAIN returned.value = {Key(lines[i]) : i \in entries}
               /\ \A key \in DOMAIN returned.value :
                    /\ returned.value[key] \notin {<<>>, <<"'", "'">>}
                    /\ \E i \in entries :
                         /\ Key(lines[i]) = key
                         /\ returned.value[key] = AfterFirstSpace(lines[i])

\* The call that refutes C21: tmux prints nothing, show_options panics.
C21_EmptyStdout ==
    /\ op = "show_options"
    /\ ran = OutputOutcome([status |-> 0, stdout |-> <<>>, stderr |-> <<>>])
    /\ returned = Panic("called Option::unwrap() on a None value")

\* The values that the lines of a stdout give for a key, by line number.
RawValues(stdout, key) ==
    LET lines == split_lines(from_utf8(stdout).value)
    IN  {<<i, AfterFirstSpace(lines[i])>> : i \in
            {i \in 1..Len(lines) :
                /\ Len(lines[i]) > Len(key)
                /\ SubSeq(lines[i], 1, Len(key) + 1) = key \o <<" ">>}}

\* The value of the last line of a key, '' and empty values left out.
Option(stdout, key) ==
    LET set == {p \in RawValues(stdout, key) : p[2] \notin {<<>>, Chars("''")}}
    IN  IF set = {} THEN <<>>
        ELSE <<(CHOOSE p \in set : \A q \in set : q[1] <= p[1])[2]>>

\* A shell, with "-l " before it if it ends with bash.
LoginShell(cmd) ==
    IF Len(cmd) >= 4 /\ SubSeq(cmd, Len(cmd) - 3, Len(cmd)) = Chars("bash")
    THEN Chars("-l ") \o cmd ELSE cmd

DefaultCommandIsQuotes ==
    /\ op = "default_command"
    /\ ran.kind = "output"
    /\ {p[2] : p \in RawValues(ran.output.stdout, Chars("default-command"))} = {Chars("''")}

\* C23, as stated: a default-command reported as '' is returned as ''.
C23_Original ==
    DefaultCommandIsQuotes => returned = [kind |-> "Ok", value |-> Chars("''")]

\* C23, amended: a default-command reported as '' is no entry of the options
\* map, so default_command returns the default-shell value (with "-l "
\* before it if it ends with bash) and fails where there is no default-shell.
C23_Amended ==
    DefaultCommandIsQuotes =>
        LET shell == Option(ran.output.stdout, Chars("default-shell"))
        IN  IF shell = <<>>
            THEN returned = [kind |-> "TmuxConfig", message |-> "no default-shell"]
            ELSE returned = [kind |-> "Ok", value |-> LoginShell(shell[1])]

C23_Witness ==
    /\ DefaultCommandIsQuotes
    /\ ran.output.stdout = as_bytes("default-shell /bin/bash") \o <<10>>
                           \o as_bytes("default-command ''") \o <<10>>
    /\ returned = [kind |-> "Ok", value |-> Chars("-l /bin/bash")]

\* C24: switch_client and display_message panic if tmux cannot be run, and
\* only then; where tmux ran, switch_client returns Ok(()) whatever the exit
\* status, stdout and stderr.
C24_FireAndForget ==
    (op \in {"switch_client", "display_message"} /\ returned # Pending) =>
        /\ returned.kind = "Panic" <=> ran = IoOutcome
        /\ (op = "switch_client" /\ ran # IoOutcome) => returned = Ok

C24_Witness ==
    /\ op = "switch_client"
    /\ ran = OutputOutcome([status |-> 256, stdout |-> <<97>>, stderr |-> <<97>>])
    /\ returned = Ok

Phase(p, r) ==
    IF r # Pending
    THEN IF r = Ok THEN "Ready"
         ELSE IF r = TimeoutError THEN "TimedOut"
         ELSE "SpawnFailed"
    ELSE IF p \in {"Starting", "AwaitNewSession"} THEN "Starting"
    ELSE "Polling"

TerminalPhases == {"Ready", "TimedOut", "SpawnFailed"}

ListedTransitions ==
    { <<"Starting", "Polling">>, <<"Starting", "SpawnFailed">>,
      <<"Polling", "Polling">>, <<"Polling", "Ready">>,
      <<"Polling", "TimedOut">> }

\* Every step of a call that has not returned stays in Starting or takes a
\* transition of `allowed`; a call that has returned issues no invocation and
\* keeps its outcome.
OnlyTransitions(allowed) ==
    IF Phase(pc, result) \in TerminalPhases
    THEN UNCHANGED <<pc, result, polls, child>>
    ELSE \/ <<Phase(pc, result), Phase(pc', result')>> \in allowed
         \/ Phase(pc, result) = "Starting" /\ Phase(pc', result') = "Starting"

\* C25 as stated: the readiness state machine has exactly the transitions
\* Starting->Polling, Starting->SpawnFailed, Polling->Polling, Polling->Ready
\* and Polling->TimedOut, and its terminal states are final. Refuted: a
\* list-sessions invocation that cannot be run ends the call from Polling
\* with the Io error.
C25_Original == [][OnlyTransitions(ListedTransitions)]_vars

\* C25, amended: the transitions are the five listed ones and
\* Polling->SpawnFailed; Ready, TimedOut and SpawnFailed are terminal: once a
\* call has returned, no invocation is issued and the outcome never changes.
C25_Amended ==
    [][OnlyTransitions(ListedTransitions \cup {<<"Polling", "SpawnFailed">>})]_vars

\* A call that returned the Io error of its second list-sessions invocation.
C25_Witness ==
    /\ pc = "Done"
    /\ result = IoError
    /\ polls = 2
    /\ exits.io = 1
    /\ exits.nonzero = 1

\* new-session has completed and start() treats it as failed.
NewSessionFailed ==
    /\ child.cmd = "new-session"
    /\ child.state = "done"
    /\ \/ child.outcome.kind = "io"
       \/ /\ child.outcome.kind = "output"
          /\ \/ child.outcome.output.stdout # <<>>
             \/ child.outcome.output.stderr # <<>>

\* The error start() returns for a failed new-session.
NewSessionError ==
    IF child.outcome.kind = "io" THEN IoError
    ELSE UnexpectedTmuxOutput("new-session",
             from_utf8_lossy(child.outcome.output.stdout),
             from_utf8_lossy(child.outcome.output.stderr))

\* C26: a new-session that cannot be run or that writes to stdout or stderr
\* makes start() return that error (Io, or UnexpectedTmuxOutput with intent
\* "new-session") without ever polling list-sessions or arming the timeout;
\* the call starts polling only from a completed new-session with empty
\* stdout and stderr.
C26_NewSessionFailure ==
    /\ [](NewSessionFailed =>
            /\ polls = 0
            /\ deadline = -1
            /\ pc \in {"AwaitNewSession", "Done"}
            /\ pc = "Done" => result = NewSessionError)
    /\ [][NewSessionFailed /\ pc' # pc =>
            pc' = "Done" /\ result' = NewSessionError /\ polls' = 0 /\ deadline' = -1]_vars
    /\ [][polls = 0 /\ (polls' > 0 \/ Phase(pc', result') = "Polling") =>
            /\ pc = "AwaitNewSession"
            /\ child.cmd = "new-session"
            /\ child.state = "done"
            /\ child.outcome.kind = "output"
            /\ child.outcome.output.stdout = <<>>
            /\ child.outcome.output.stderr = <<>>]_vars

\* start() has returned UnexpectedTmuxOutput for a new-session that exited
\* zero and wrote only to stderr.
C26_Witness ==
    /\ pc = "Done"
    /\ polls = 0
    /\ deadline = -1
    /\ child.cmd = "new-session"
    /\ child.outcome.kind = "output"
    /\ child.outcome.output.status = 0
    /\ child.outcome.output.stdout = <<>>
    /\ child.outcome.output.stderr # <<>>
    /\ result.kind = "UnexpectedTmuxOutput"
    /\ result.intent = "new-session"

\* C27: the tmux invocations of one call are serial. A list-sessions is
\* spawned only when no child is running: the first one from the completed
\* new-session and without a sleep before it, every later one from a finished
\* sleep; a sleep starts only from a list-sessions that completed with a
\* non-zero exit, and exactly one sleep lies between two polls.
C27_Serial ==
    /\ [](sleeps <= polls /\ polls <= sleeps + 1 /\ sleeps <= exits.nonzero)
    /\ [](pc = "Sleeping" => child = NoChild /\ sleeps = polls)
    /\ [][polls' # polls =>
            /\ polls' = polls + 1
            /\ child.state # "running"
            /\ child'.cmd = "list-sessions"
            /\ IF polls = 0
               THEN /\ child.cmd = "new-session"
                    /\ child.state = "done"
                    /\ sleeps = 0
               ELSE /\ pc = "Sleeping"
                    /\ now >= wake
                    /\ sleeps = polls]_vars
    /\ [][sleeps' # sleeps =>
            /\ sleeps' = sleeps + 1
            /\ child.cmd = "list-sessions"
            /\ child.state = "done"
            /\ child.outcome.kind = "output"
            /\ ExitCode(child.outcome.output.status) # 0
            /\ child' = NoChild
            /\ polls' = polls]_vars

\* The second list-sessions is running after one sleep.
C27_Witness ==
    /\ pc = "AwaitListSessions"
    /\ child = Running("list-sessions")
    /\ polls = 2
    /\ sleeps = 1
    /\ exits.nonzero = 1

\* `poll` is ready with Ok: the awaited list-sessions completed with exit 0.
PollerReadyOk ==
    /\ pc = "AwaitListSessions"
    /\ child.state = "done"
    /\ child.outcome.kind = "output"
    /\ child.outcome.output.status = 0

\* C28: the race is biased towards the poller. When a list-sessions has
\* completed with exit 0 and the timer has elapsed too, the call returns Ok;
\* the timeout error is returned only while the timer has elapsed and the
\* poller is pending, awaiting a child or sleeping.
C28_PollerFirst ==
    /\ [][PollerReadyOk /\ now >= deadline /\ pc' # pc =>
            pc' = "Done" /\ result' = Ok]_vars
    /\ [][result = Pending /\ result' = TimeoutError =>
            /\ now >= deadline
            /\ deadline >= 0
            /\ ~PollerReadyOk
            /\ \/ child' = Running("list-sessions")
               \/ child' = NoChild /\ wake' > now]_vars

\* The call returned Ok although the timer had already elapsed.
C28_Witness ==
    /\ pc = "Done"
    /\ result = Ok
    /\ deadline >= 0
    /\ now > deadline

\* C29: the exit status of new-session is not consulted. A new-session that
\* completed with empty stdout and stderr, whatever its exit status, is ok:
\* start() goes on to poll list-sessions, and only calls whose new-session
\* completed with output reach the polling.
C29_StatusIgnored ==
    /\ [][/\ pc = "AwaitNewSession"
          /\ child.state = "done"
          /\ child.outcome.kind = "output"
          /\ child.outcome.output.stdout = <<>>
          /\ child.outcome.output.stderr = <<>>
          /\ pc' # pc
          => /\ polls' = 1
             /\ child'.cmd = "list-sessions"
             /\ \/ pc' = "AwaitListSessions" /\ result' = Pending
                \/ pc' = "Done" /\ result' = IoError /\ child'.state = "done"]_vars
    /\ [](polls > 0 => exits.new_session \in {"zero", "nonzero"})

\* start() returned Ok although new-session had exited non-zero.
C29_Witness ==
    /\ pc = "Done"
    /\ result = Ok
    /\ exits.new_session = "nonzero"

====
